---- MODULE Spec2Model ----
(***************************************************************************)
(* ts-path-alias-fix: the import rewriting pass (src/import-fix.ts), the   *)
(* export declaration scan (src/export-check.ts) and the driver            *)
(* (src/index.ts).                                                         *)
(*                                                                         *)
(* Strings.  A JavaScript string is modelled by its split on "/" and then  *)
(* on ".": a string is a non-empty sequence of segments, a segment is a    *)
(* non-empty sequence of tokens, a token is a TLA+ string holding neither  *)
(* "/" nor ".".  So                                                        *)
(*     ""            is  << <<"">> >>                                      *)
(*     "./b.ts"      is  << <<"","">>, <<"b","ts">> >>                     *)
(*     "/cwd/src"    is  << <<"">>, <<"cwd">>, <<"src">> >>                *)
(*     "~/"          is  << <<"~">>, <<"">> >>                             *)
(* The encoding is one-to-one, so string equality is sequence equality,    *)
(* a + "/" + b is a \o b, and the fields of a ParsedPath that hold no "/"  *)
(* (base, name, ext) are single segments.                                  *)
(***************************************************************************)
EXTENDS Integers, Sequences, FiniteSets, TLC

E == <<"">>
DOT == <<"", "">>
DOTDOT == <<"", "", "">>
STAR == <<"*">>
EmptyStr == <<E>>
RootStr == <<E, E>>

Front(s) == SubSeq(s, 1, Len(s) - 1)
Last(s) == s[Len(s)]

(* Number of characters of a segment and of a string (String.length). *)
RECURSIVE TokensLength(_)
TokensLength(seg) ==
    IF seg = <<>> THEN 0
    ELSE Len(seg[1]) + (IF Len(seg) > 1 THEN 1 ELSE 0) + TokensLength(Tail(seg))

RECURSIVE StrLength(_)
StrLength(s) ==
    IF s = <<>> THEN 0
    ELSE TokensLength(s[1]) + (IF Len(s) > 1 THEN 1 ELSE 0) + StrLength(Tail(s))

(* String.prototype.startsWith(p) for a prefix p whose last token is ""    *)
(* (every prefix the program tests ends in "/" or is "..": "./", "../",    *)
(* an alias with its "*" sliced off, "..").                                *)
StartsWith(s, p) ==
    LET n == Len(p)
        u == p[n]
        k == Len(u)
    IN  /\ Len(s) >= n
        /\ SubSeq(s, 1, n - 1) = SubSeq(p, 1, n - 1)
        /\ Len(s[n]) >= k
        /\ SubSeq(s[n], 1, k - 1) = SubSeq(u, 1, k - 1)
        /\ u[k] = ""

(* String.prototype.endsWith("/*") *)
EndsWithSlashStar(s) == Len(s) >= 2 /\ Last(s) = STAR

(* s.slice(0, -1) of a string that ends in "/*" *)
SliceStar(s) == Front(s) \o <<E>>

(* String.prototype.includes(t) for a needle that is one whole token *)
Includes(s, t) == \E i \in 1..Len(s) : \E j \in 1..Len(s[i]) : s[i][j] = t

(* alias + rest, for an alias that ends in "/" *)
Concat(alias, rest) == Front(alias) \o rest

----------------------------------------------------------------------------
(* node:path (posix) *)

cwd == <<E, <<"cwd">>>>

IsAbsolute(s) == Len(s) >= 2 /\ s[1] = E

(* normalizeString: drop "" and ".", let ".." pop (an absolute path stays  *)
(* at the root).  acc is the stack of kept segments.                       *)
RECURSIVE NormalizeSegs(_, _)
NormalizeSegs(segs, acc) ==
    IF segs = <<>> THEN acc
    ELSE LET h == segs[1]
         IN  IF h = E \/ h = DOT THEN NormalizeSegs(Tail(segs), acc)
             ELSE IF h = DOTDOT
                  THEN NormalizeSegs(Tail(segs), IF acc = <<>> THEN acc ELSE Front(acc))
                  ELSE NormalizeSegs(Tail(segs), Append(acc, h))

(* The segments below the root of path.resolve(from, to). *)
ResolveSegs(from, to) ==
    IF IsAbsolute(to) THEN NormalizeSegs(to, <<>>)
    ELSE IF IsAbsolute(from) THEN NormalizeSegs(from \o to, <<>>)
    ELSE NormalizeSegs(cwd \o from \o to, <<>>)

AbsStr(segs) == IF segs = <<>> THEN RootStr ELSE <<E>> \o segs

PathResolve(from, to) == AbsStr(ResolveSegs(from, to))

PathDirname(p) ==
    IF Len(p) = 1 THEN <<DOT>>
    ELSE IF Len(p) = 2 /\ p[1] = E THEN RootStr
    ELSE Front(p)

RECURSIVE CommonLen(_, _)
CommonLen(a, b) ==
    IF a = <<>> \/ b = <<>> \/ a[1] # b[1] THEN 0
    ELSE 1 + CommonLen(Tail(a), Tail(b))

RelativeOut(f, t, c) ==
    IF Len(f) = c /\ Len(t) = c THEN EmptyStr
    ELSE [i \in 1..(Len(f) - c) |-> DOTDOT] \o SubSeq(t, c + 1, Len(t))

RelativeOf(f, t) == RelativeOut(f, t, CommonLen(f, t))

(* path.relative: both sides resolved, the common leading segments         *)
(* dropped, one ".." per segment left of from.                             *)
PathRelative(from, to) ==
    RelativeOf(ResolveSegs(EmptyStr, from), ResolveSegs(EmptyStr, to))

(* path.parse: trailing slashes are not part of base; dir is what stands   *)
(* before the slash in front of base ("/" when only the root does); ext    *)
(* runs from the last "." of base, unless that dot is the first character  *)
(* of base or base is "..".                                                *)
RECURSIVE StripTrailing(_)
StripTrailing(s) ==
    IF Len(s) > 1 /\ Last(s) = E THEN StripTrailing(Front(s)) ELSE s

HasNoExt(base) ==
    Len(base) = 1 \/ (Len(base) = 2 /\ base[1] = "") \/ base = DOTDOT

ParsedPath(root, dir, base) ==
    [ root |-> root,
      dir  |-> dir,
      base |-> base,
      ext  |-> IF HasNoExt(base) THEN E ELSE <<"", Last(base)>>,
      name |-> IF HasNoExt(base) THEN base ELSE Front(base) ]

DirOf(abs, pre) ==
    IF pre = <<>> THEN (IF abs THEN RootStr ELSE EmptyStr)
    ELSE IF pre = <<E>> THEN RootStr
    ELSE pre

ParseStripped(abs, t) ==
    IF abs /\ Len(t) = 1 THEN ParsedPath(RootStr, RootStr, E)
    ELSE ParsedPath(IF abs THEN RootStr ELSE EmptyStr, DirOf(abs, Front(t)), Last(t))

PathParse(s) == ParseStripped(IsAbsolute(s), StripTrailing(s))

(* path.format: dir || root, base || name + ext *)
FormatOf(dir, root, base) ==
    IF dir = EmptyStr THEN <<base>>
    ELSE IF dir = root THEN Front(dir) \o <<base>>
    ELSE dir \o <<base>>

PathFormat(parts) ==
    FormatOf(IF parts.dir # EmptyStr THEN parts.dir ELSE parts.root,
             parts.root,
             IF parts.base # E THEN parts.base
             ELSE Front(parts.name) \o <<Last(parts.name) \o parts.ext[1]>>
                  \o Tail(parts.ext))

----------------------------------------------------------------------------
(* src/import-fix.ts: the alias table *)

(* pathsMap[alias] = aliasDir on an insertion-ordered object: a new key is *)
(* appended, a known key keeps its place.                                  *)
PutAlias(pm, alias, aliasDir) ==
    IF \E i \in 1..Len(pm) : pm[i].alias = alias
    THEN [i \in 1..Len(pm) |->
            IF pm[i].alias = alias THEN [alias |-> alias, aliasDir |-> aliasDir] ELSE pm[i]]
    ELSE Append(pm, [alias |-> alias, aliasDir |-> aliasDir])

(* The loop of getPathsMap over Object.entries(paths); an entry is          *)
(* [alias, targets] and only targets[1] is read.                           *)
RECURSIVE PathsMapOf(_, _)
PathsMapOf(entries, pm) ==
    IF entries = <<>> THEN pm
    ELSE LET e == entries[1]
         IN  IF ~EndsWithSlashStar(e.alias) THEN PathsMapOf(Tail(entries), pm)
             ELSE IF e.targets = <<>> \/ ~EndsWithSlashStar(e.targets[1])
                  THEN PathsMapOf(Tail(entries), pm)
                  ELSE PathsMapOf(Tail(entries),
                                  PutAlias(pm, SliceStar(e.alias), SliceStar(e.targets[1])))

(* getPathsMap: an error when no tsconfig is found *)
getPathsMap(tsconfig) ==
    IF ~tsconfig.found THEN [isErr |-> TRUE, map |-> <<>>]
    ELSE [isErr |-> FALSE, map |-> PathsMapOf(tsconfig.paths, <<>>)]

Aliases(pm) == [i \in 1..Len(pm) |-> pm[i].alias]

AliasDirOf(pm, alias) ==
    LET i == CHOOSE j \in 1..Len(pm) : pm[j].alias = alias IN pm[i].aliasDir

(* Array.prototype.sort((a, b) => b.length - a.length): stable, longest    *)
(* first.  Insert(a, sorted) puts a behind every key at least as long.     *)
RECURSIVE InsertByLength(_, _)
InsertByLength(a, sorted) ==
    IF sorted = <<>> THEN <<a>>
    ELSE IF StrLength(sorted[1]) >= StrLength(a)
         THEN <<sorted[1]>> \o InsertByLength(a, Tail(sorted))
         ELSE <<a>> \o sorted

RECURSIVE SortByLength(_, _)
SortByLength(keys, sorted) ==
    IF keys = <<>> THEN sorted
    ELSE SortByLength(Tail(keys), InsertByLength(keys[1], sorted))

sortedAliases(pm) == SortByLength(Aliases(pm), <<>>)

(* resolveImportPath: the first alias, longest first, that the specifier   *)
(* starts with; else relative to the containing file's directory.          *)
RECURSIVE ResolveWithAliases(_, _, _, _)
ResolveWithAliases(keys, importPath, fileDir, pm) ==
    IF keys = <<>> THEN PathResolve(fileDir, importPath)
    ELSE LET alias == keys[1]
         IN  IF ~StartsWith(importPath, alias)
             THEN ResolveWithAliases(Tail(keys), importPath, fileDir, pm)
             ELSE IF AliasDirOf(pm, alias) = EmptyStr
                  THEN ResolveWithAliases(Tail(keys), importPath, fileDir, pm)
                  ELSE PathResolve(AliasDirOf(pm, alias),
                                   SubSeq(importPath, Len(alias), Len(importPath)))

resolveImportPath(importPath, filePath, pm) ==
    ResolveWithAliases(sortedAliases(pm), importPath, PathDirname(filePath), pm)

----------------------------------------------------------------------------
(* src/import-fix.ts: the extension and the alias transforms *)

changeExtension(importParts, newExtension) ==
    [importParts EXCEPT !.ext = newExtension, !.base = E]

(* A variant of ALLOWED_EXTENSIONS that probes .tsx before .ts. *)
ALLOWED_EXTENSIONS_TsxFirst == << <<"", "tsx">>, <<"", "ts">>, <<"", "d", "ts">> >>

ALLOWED_EXTENSIONS == << <<"", "ts">>, <<"", "tsx">>, <<"", "d", "ts">> >>

tsExtensionLookups == { E, <<"", "js">>, <<"", "jsx">>, <<"", "ts">>, <<"", "tsx">> }

None == [some |-> FALSE]

(* The for loop of getNewExtensionPathParts from ALLOWED_EXTENSIONS[i] on. *)
RECURSIVE ProbeExtensions(_, _, _)
ProbeExtensions(importParts, i, tree) ==
    IF i > Len(ALLOWED_EXTENSIONS) THEN None
    ELSE IF PathFormat(changeExtension(importParts, ALLOWED_EXTENSIONS[i])) \in tree
         THEN [some |-> TRUE, ext |-> ALLOWED_EXTENSIONS[i], base |-> E]
         ELSE ProbeExtensions(importParts, i + 1, tree)

(* A variant of getNewExtensionPathParts without the early return for an   *)
(* extension outside tsExtensionLookups.                                   *)
getNewExtensionPathParts_AlwaysProbe(importParts, tree) ==
    ProbeExtensions(importParts, 1, tree)

getNewExtensionPathParts(importParts, tree) ==
    IF importParts.ext \notin tsExtensionLookups
    THEN [some |-> TRUE, ext |-> importParts.ext, base |-> importParts.base]
    ELSE ProbeExtensions(importParts, 1, tree)

AliasDirOfImport(alias, relativeToAliasDir) ==
    [some |-> TRUE, dir |-> PathParse(Concat(alias, relativeToAliasDir)).dir]

(* The for loop of getAliasPathParts over Object.entries(pathsMap), in     *)
(* mapping order, from entry i on.                                         *)
RECURSIVE AliasFrom(_, _, _)
AliasFrom(importPath, pm, i) ==
    IF i > Len(pm) THEN None
    ELSE IF StartsWith(PathRelative(pm[i].aliasDir, importPath), <<DOTDOT>>)
         THEN AliasFrom(importPath, pm, i + 1)
         ELSE AliasDirOfImport(pm[i].alias, PathRelative(pm[i].aliasDir, importPath))

getAliasPathParts(importParts, pm) == AliasFrom(PathFormat(importParts), pm, 1)

----------------------------------------------------------------------------
(* src/import-fix.ts: the replace callback and the per-file transform *)

(* A file's text is the sequence of its import and export statements.  A   *)
(* statement is [kind, path]: "import" (import ... from 'p', import 'p')   *)
(* and "exportFrom" (export ... from 'p') end in a quoted specifier and    *)
(* are matched by IMPORT_PATTERN; "exportList" (export { a }) holds no     *)
(* specifier and is not.  Text that is neither is touched by no pass.      *)
IMPORT_PATTERN(line) == line.kind \in {"import", "exportFrom"}

isRelativeImport(importPath) ==
    StartsWith(importPath, <<DOT, E>>) \/ StartsWith(importPath, <<DOTDOT, E>>)

isAliasImport(importPath, pm) ==
    \E i \in 1..Len(pm) : StartsWith(importPath, pm[i].alias)

isIgnored(importPath, opts) ==
    \E ignoreString \in opts.importIgnoreStrings : Includes(importPath, ignoreString)

ExtensionError(importPath) == [kind |-> "extension", importPath |-> importPath]
AliasError(importPath) == [kind |-> "alias", importPath |-> importPath]

Untouched(importPath) == [path |-> importPath, errors |-> <<>>, transformed |-> <<>>]

(* Lines 160-173: the specifier is put together again; an unchanged one    *)
(* leaves the match as it is, a changed one is recorded and replaced.      *)
Reassemble(importPath, newImportPath, errs) ==
    IF newImportPath = importPath
    THEN [path |-> importPath, errors |-> errs, transformed |-> <<>>]
    ELSE [path |-> newImportPath, errors |-> errs,
          transformed |-> << [from |-> importPath, to |-> newImportPath] >>]

(* Lines 143-158: the two results are merged into newImportParts, a failed *)
(* one pushes its error.                                                   *)
MergeParts(parts, extResult, aliasResult) ==
    [parts EXCEPT !.ext  = IF extResult.some THEN extResult.ext ELSE @,
                  !.base = IF extResult.some THEN extResult.base ELSE @,
                  !.dir  = IF aliasResult.some THEN aliasResult.dir ELSE @]

MergeErrors(importPath, extResult, toAlias, aliasResult) ==
    (IF extResult.some THEN <<>> ELSE <<ExtensionError(importPath)>>)
    \o (IF toAlias /\ ~aliasResult.some THEN <<AliasError(importPath)>> ELSE <<>>)

Merge(importPath, parts, extResult, toAlias, aliasResult) ==
    Reassemble(importPath,
               PathFormat(MergeParts(parts, extResult, aliasResult)),
               MergeErrors(importPath, extResult, toAlias, aliasResult))

(* A variant of Rewrite that gives the specifier up, alias step included,  *)
(* as soon as its extension cannot be resolved.                            *)
Rewrite_StopAtExtensionError(importPath, resolvedImportParts, toAlias, pm, tree) ==
    IF getNewExtensionPathParts(resolvedImportParts, tree).some
    THEN Merge(importPath,
               PathParse(importPath),
               getNewExtensionPathParts(resolvedImportParts, tree),
               toAlias,
               IF toAlias THEN getAliasPathParts(resolvedImportParts, pm) ELSE None)
    ELSE [path |-> importPath, errors |-> <<ExtensionError(importPath)>>,
          transformed |-> <<>>]

(* Lines 136-158 for a specifier that is relative or an alias import and   *)
(* is not ignored.                                                         *)
Rewrite(importPath, resolvedImportParts, toAlias, pm, tree) ==
    Merge(importPath,
          PathParse(importPath),
          getNewExtensionPathParts(resolvedImportParts, tree),
          toAlias,
          IF toAlias THEN getAliasPathParts(resolvedImportParts, pm) ELSE None)

(* The callback of content.replace for one matched specifier: the          *)
(* specifier it leaves in the text, the errors and the change descriptions *)
(* it pushes.                                                              *)
FixSpecifier(importPath, filePath, pm, opts, tree) ==
    IF ~(isRelativeImport(importPath) \/ isAliasImport(importPath, pm))
    THEN Untouched(importPath)
    ELSE IF isIgnored(importPath, opts)
    THEN Untouched(importPath)
    ELSE Rewrite(importPath,
                 PathParse(resolveImportPath(importPath, filePath, pm)),
                 isRelativeImport(importPath) /\ ~opts.skipAlias,
                 pm, tree)

(* One match replaced: match.replace(importPath, newImportPath) and the    *)
(* pushes of the callback.                                                 *)
Replaced(acc, line, r) ==
    [content |-> Append(acc.content, [line EXCEPT !.path = r.path]),
     errors |-> acc.errors \o r.errors,
     transformed |-> acc.transformed \o r.transformed]

(* content.replace(IMPORT_PATTERN, callback) from statement i on; acc      *)
(* holds the text built, importErrorsForFile and transformedImportsForFile.*)
RECURSIVE ReplaceFrom(_, _, _, _, _, _, _)
ReplaceFrom(content, i, acc, filePath, pm, opts, tree) ==
    IF i > Len(content) THEN acc
    ELSE IF ~IMPORT_PATTERN(content[i])
         THEN ReplaceFrom(content, i + 1,
                          [acc EXCEPT !.content = Append(@, content[i])],
                          filePath, pm, opts, tree)
         ELSE ReplaceFrom(content, i + 1,
                          Replaced(acc, content[i],
                                   FixSpecifier(content[i].path, filePath, pm, opts, tree)),
                          filePath, pm, opts, tree)

TransformContent(content, filePath, pm, opts, tree) ==
    ReplaceFrom(content, 1, [content |-> <<>>, errors |-> <<>>, transformed |-> <<>>],
                filePath, pm, opts, tree)

----------------------------------------------------------------------------
(* Bounds and the inputs the two specifications draw from *)

MaxFiles == 2
MaxRuns == 2
MaxFailures == 1

SRC == <<"src">>
LIB == <<"lib">>
VENDOR == <<"vendor">>
TILDE == <<"~">>
ATLIB == <<"@lib">>

Abs(rel) == cwd \o rel

(* Candidate files, in the order the glob yields them. *)
FileA == <<SRC, <<"a", "ts">>>>
FileIndex == <<SRC, LIB, <<"index", "ts">>>>
FileIndexDts == <<SRC, <<"index", "d", "ts">>>>
FileNames == <<FileA, FileIndex, FileIndexDts>>

(* The subsequences of s of length n. *)
RECURSIVE SubSeqsOf(_, _)
SubSeqsOf(s, n) ==
    IF n = 0 THEN {<<>>}
    ELSE IF Len(s) < n THEN {}
    ELSE {<<s[1]>> \o t : t \in SubSeqsOf(Tail(s), n - 1)} \cup SubSeqsOf(Tail(s), n)

FileLists == UNION {SubSeqsOf(FileNames, n) : n \in 0..MaxFiles}

Import(path) == [kind |-> "import", path |-> path]
ExportFrom(path) == [kind |-> "exportFrom", path |-> path]
ExportList == [kind |-> "exportList", path |-> EmptyStr]

Contents ==
    { <<>>,
      <<Import(<<DOT, <<"missing">>>>), ExportFrom(<<DOT, LIB, <<"x">>>>)>>,
      <<Import(<<DOT, LIB, <<"x", "js">>>>)>>,
      <<ExportList>> }

(* The texts a file of the tree starts with: a module imports and exports, *)
(* the barrel src/lib/index.ts is empty or re-exports its neighbour x, the *)
(* declaration file is empty or holds an export list.                      *)
ContentsOf(filePath) ==
    IF filePath = FileIndex THEN {<<>>, <<ExportFrom(<<DOT, <<"x", "js">>>>)>>}
    ELSE IF filePath = FileIndexDts THEN {<<>>, <<ExportList>>}
    ELSE Contents

Tree0 ==
    {Abs(FileNames[i]) : i \in 1..Len(FileNames)}
    \cup {Abs(<<SRC, LIB, <<"x", "ts">>>>), Abs(<<VENDOR, LIB, <<"x", "tsx">>>>)}

PathsEntry(alias, target) == [alias |-> alias, targets |-> <<target>>]

NoTsconfig == [found |-> FALSE, paths |-> <<>>]

(* { "~/*": ["./src/*"] } *)
TsconfigOne ==
    [found |-> TRUE,
     paths |-> <<PathsEntry(<<TILDE, STAR>>, <<DOT, SRC, STAR>>)>>]

(* { "~/*": ["./src/*"], "lib": ["./vendor/lib/index.ts"],                 *)
(*   "~/lib/*": ["./vendor/lib/*"] }: the second entry is no prefix alias, *)
(* the third nests its prefix in the first.                                *)
TsconfigNestedPrefix ==
    [found |-> TRUE,
     paths |-> <<PathsEntry(<<TILDE, STAR>>, <<DOT, SRC, STAR>>),
                 PathsEntry(<<LIB>>, <<DOT, VENDOR, LIB, <<"index", "ts">>>>),
                 PathsEntry(<<TILDE, LIB, STAR>>, <<DOT, VENDOR, LIB, STAR>>)>>]

(* { "~/*": ["./src/*"], "@lib/*": ["./src/lib/*"] }: the second target    *)
(* directory nests in the first.                                           *)
TsconfigNestedDir ==
    [found |-> TRUE,
     paths |-> <<PathsEntry(<<TILDE, STAR>>, <<DOT, SRC, STAR>>),
                 PathsEntry(<<ATLIB, STAR>>, <<DOT, SRC, LIB, STAR>>)>>]

(* The same two aliases, the nested one declared first. *)
TsconfigNestedDirFirst ==
    [found |-> TRUE,
     paths |-> <<PathsEntry(<<ATLIB, STAR>>, <<DOT, SRC, LIB, STAR>>),
                 PathsEntry(<<TILDE, STAR>>, <<DOT, SRC, STAR>>)>>]

Tsconfigs == {NoTsconfig, TsconfigOne, TsconfigNestedPrefix}

OptionSets ==
    [write : BOOLEAN, skipAlias : BOOLEAN, importIgnoreStrings : {{"gen"}}]

----------------------------------------------------------------------------
(* State *)

VARIABLES
    tsconfig,             \* what getTsconfig() finds
    opts,                 \* cli(): write, skipAlias, importIgnoreStrings
    filePaths,            \* the glob's result
    tree,                 \* absolute paths of the files that exist
    disk,                 \* disk[f]: text of filePaths[f]
    run,                  \* which invocation of the program this is
    failures,             \* reads and writes that failed in this invocation
    mainPc,               \* where main/tsImportFix stands
    errors,               \* tsImportFix's errors array
    exitCode,             \* what main returned (-1: not yet)
    pathsMap,             \* fixImports' pathsMap
    fixPc,                \* fixPc[f]: fixImports' task for filePaths[f]
    fixContent,           \* its content
    fixOut,               \* its transformedContent
    IMPORT_ERRORS,
    TRANSFORMED_IMPORTS,
    fixLog,               \* what fixImports printed as "transformed imports"
    fixResult,            \* what fixImports returned
    expPc,                \* expPc[f]: checkExports' task for filePaths[f]
    EXPORT_ERRORS,
    expResult,            \* what checkExports returned
    disk0,                \* history: the disk when this invocation started
    prevClean             \* history: the previous invocation had no failure

vars == <<tsconfig, opts, filePaths, tree, disk, run, failures, mainPc, errors,
          exitCode, pathsMap, fixPc, fixContent, fixOut, IMPORT_ERRORS,
          TRANSFORMED_IMPORTS, fixLog, fixResult, expPc, EXPORT_ERRORS, expResult,
          disk0, prevClean>>

inputs == <<tsconfig, opts, filePaths, tree>>
fixVars == <<pathsMap, fixPc, fixContent, fixOut, IMPORT_ERRORS, TRANSFORMED_IMPORTS,
             fixLog, fixResult>>
expVars == <<expPc, EXPORT_ERRORS, expResult>>
history == <<run, disk0, prevClean>>

Files == 1..Len(filePaths)

Pending == [state |-> "pending", message |-> "", detail |-> <<>>]
Ok == [state |-> "ok", message |-> "", detail |-> <<>>]
Err(message, detail) == [state |-> "err", message |-> message, detail |-> detail]

isErr(result) == result.state = "err"

Fresh(paths) ==
    /\ run = 1
    /\ failures = 0
    /\ mainPc = "start"
    /\ errors = <<>>
    /\ exitCode = -1
    /\ pathsMap = <<>>
    /\ fixPc = [f \in 1..Len(paths) |-> "idle"]
    /\ fixContent = [f \in 1..Len(paths) |-> <<>>]
    /\ fixOut = [f \in 1..Len(paths) |-> <<>>]
    /\ IMPORT_ERRORS = <<>>
    /\ TRANSFORMED_IMPORTS = <<>>
    /\ fixLog = <<>>
    /\ fixResult = Pending
    /\ expPc = [f \in 1..Len(paths) |-> "idle"]
    /\ EXPORT_ERRORS = <<>>
    /\ expResult = Pending
    /\ prevClean = FALSE

Init ==
    /\ tsconfig \in Tsconfigs
    /\ opts \in OptionSets
    /\ filePaths \in FileLists
    /\ tree = Tree0
    /\ disk \in [1..Len(filePaths) -> Contents \cup ContentsOf(FileIndex)]
    /\ \A f \in 1..Len(filePaths) : disk[f] \in ContentsOf(filePaths[f])
    /\ disk0 = disk
    /\ Fresh(filePaths)

----------------------------------------------------------------------------
(* src/import-fix.ts: fixImports *)

FixRejected == \E f \in Files : fixPc[f] \in {"readFailed", "writeFailed"}
FixFulfilled == \A f \in Files : fixPc[f] = "done"
FixTasksSettled == \A f \in Files : fixPc[f] \in {"idle", "done", "readFailed", "writeFailed"}

(* tsImportFix calls fixImports: getPathsMap, then filePaths.map starts    *)
(* every task, each up to its await of readFile.                           *)
fixImportsCall ==
    /\ mainPc = "start"
    /\ mainPc' = "fixImports"
    /\ LET got == getPathsMap(tsconfig)
       IN  IF got.isErr
           THEN /\ fixResult' = Err("failed to load tsconfig", <<>>)
                /\ UNCHANGED <<pathsMap, fixPc>>
           ELSE /\ pathsMap' = got.map
                /\ fixPc' = [f \in Files |-> "reading"]
                /\ UNCHANGED fixResult
    /\ UNCHANGED <<inputs, disk, failures, errors, exitCode, fixContent, fixOut,
                   IMPORT_ERRORS, TRANSFORMED_IMPORTS, fixLog, expVars, history>>

(* Lines 176-186 for a task whose transform gave t. *)
fixTaskAfterTransform(f, content, t) ==
    /\ fixContent' = [fixContent EXCEPT ![f] = content]
    /\ fixOut' = [fixOut EXCEPT ![f] = t.content]
    /\ IMPORT_ERRORS' =
          IF Len(t.errors) > 0
          THEN Append(IMPORT_ERRORS, [filePath |-> filePaths[f], lines |-> t.errors])
          ELSE IMPORT_ERRORS
    /\ TRANSFORMED_IMPORTS' =
          IF Len(t.transformed) > 0
          THEN Append(TRANSFORMED_IMPORTS,
                      [filePath |-> filePaths[f], lines |-> t.transformed])
          ELSE TRANSFORMED_IMPORTS
    /\ fixPc' = [fixPc EXCEPT ![f] =
          IF t.content = content THEN "done"
          ELSE IF opts.write THEN "writing"
          ELSE "done"]

(* readFile resolved: the task runs to its next await (writeFile) or to    *)
(* its end.                                                                *)
fixReadOk(f) ==
    /\ fixPc[f] = "reading"
    /\ fixTaskAfterTransform(f, disk[f],
                             TransformContent(disk[f], filePaths[f], pathsMap, opts, tree))
    /\ UNCHANGED <<inputs, disk, failures, mainPc, errors, exitCode, pathsMap,
                   fixLog, fixResult, expVars, history>>

(* readFile rejected: the task's promise rejects *)
fixReadFail(f) ==
    /\ fixPc[f] = "reading"
    /\ failures < MaxFailures
    /\ failures' = failures + 1
    /\ fixPc' = [fixPc EXCEPT ![f] = "readFailed"]
    /\ UNCHANGED <<inputs, disk, mainPc, errors, exitCode, pathsMap, fixContent,
                   fixOut, IMPORT_ERRORS, TRANSFORMED_IMPORTS, fixLog, fixResult,
                   expVars, history>>

(* writeFile resolved *)
fixWriteOk(f) ==
    /\ fixPc[f] = "writing"
    /\ disk' = [disk EXCEPT ![f] = fixOut[f]]
    /\ fixPc' = [fixPc EXCEPT ![f] = "done"]
    /\ UNCHANGED <<inputs, failures, mainPc, errors, exitCode, pathsMap, fixContent,
                   fixOut, IMPORT_ERRORS, TRANSFORMED_IMPORTS, fixLog, fixResult,
                   expVars, history>>

(* writeFile rejected *)
fixWriteFail(f) ==
    /\ fixPc[f] = "writing"
    /\ failures < MaxFailures
    /\ failures' = failures + 1
    /\ fixPc' = [fixPc EXCEPT ![f] = "writeFailed"]
    /\ UNCHANGED <<inputs, disk, mainPc, errors, exitCode, pathsMap, fixContent,
                   fixOut, IMPORT_ERRORS, TRANSFORMED_IMPORTS, fixLog, fixResult,
                   expVars, history>>

(* What fixImports returns once attempt(Promise.all) has settled. *)
fixImportsResult(rejected, importErrors) ==
    IF rejected THEN Err("something went wrong when transforming imports", <<>>)
    ELSE IF Len(importErrors) > 0
         THEN Err("failed to transform some imports", importErrors)
         ELSE Ok

(* await attempt(() => Promise.all(filePromises)) settles, on the first    *)
(* rejection or when every task is done: the log is printed and            *)
(* fixImports returns.                                                     *)
fixImportsSettle ==
    /\ mainPc = "fixImports"
    /\ fixResult = Pending
    /\ FixRejected \/ FixFulfilled
    /\ fixLog' = TRANSFORMED_IMPORTS
    /\ fixResult' = fixImportsResult(FixRejected, IMPORT_ERRORS)
    /\ UNCHANGED <<inputs, disk, failures, mainPc, errors, exitCode, pathsMap, fixPc,
                   fixContent, fixOut, IMPORT_ERRORS, TRANSFORMED_IMPORTS, expVars,
                   history>>

----------------------------------------------------------------------------
(* src/export-check.ts: checkExports *)

(* A variant of isIndex that exempts no file. *)
isIndex_Never(filePath) == FALSE

isIndex(filePath) == PathParse(filePath).name = <<"index">>

(* ts.isExportDeclaration over the file's statements *)
exportDeclarations(sourceCode) ==
    SelectSeq(sourceCode, LAMBDA line : line.kind \in {"exportFrom", "exportList"})

ExpRejected == \E f \in Files : expPc[f] = "failed"
ExpFulfilled == \A f \in Files : expPc[f] = "done"
ExpTasksSettled == \A f \in Files : expPc[f] \in {"idle", "done", "failed"}

(* tsImportFix takes fixImports' result and calls checkExports: every task *)
(* runs up to its await of readFile, the task of an index file to its end. *)
checkExportsCall ==
    /\ mainPc = "fixImports"
    /\ fixResult # Pending
    /\ errors' = IF isErr(fixResult) THEN Append(errors, fixResult) ELSE errors
    /\ expPc' = [f \in Files |-> IF isIndex(filePaths[f]) THEN "done" ELSE "reading"]
    /\ mainPc' = "checkExports"
    /\ UNCHANGED <<inputs, disk, failures, exitCode, fixVars, EXPORT_ERRORS, expResult,
                   history>>

(* readFile resolved: the file is parsed and its export declarations are   *)
(* collected.                                                              *)
expReadOk(f) ==
    /\ expPc[f] = "reading"
    /\ LET found == exportDeclarations(disk[f])
       IN  EXPORT_ERRORS' =
              IF Len(found) = 0 THEN EXPORT_ERRORS
              ELSE Append(EXPORT_ERRORS, [filePath |-> filePaths[f], lines |-> found])
    /\ expPc' = [expPc EXCEPT ![f] = "done"]
    /\ UNCHANGED <<inputs, disk, failures, mainPc, errors, exitCode, fixVars, expResult,
                   history>>

expReadFail(f) ==
    /\ expPc[f] = "reading"
    /\ failures < MaxFailures
    /\ failures' = failures + 1
    /\ expPc' = [expPc EXCEPT ![f] = "failed"]
    /\ UNCHANGED <<inputs, disk, mainPc, errors, exitCode, fixVars, EXPORT_ERRORS,
                   expResult, history>>

checkExportsResult(rejected, exportErrors) ==
    IF rejected THEN Err("something went wrong when checking exports", <<>>)
    ELSE IF Len(exportErrors) > 0
         THEN Err("found export declarations", exportErrors)
         ELSE Ok

checkExportsSettle ==
    /\ mainPc = "checkExports"
    /\ expResult = Pending
    /\ ExpRejected \/ ExpFulfilled
    /\ expResult' = checkExportsResult(ExpRejected, EXPORT_ERRORS)
    /\ UNCHANGED <<inputs, disk, failures, mainPc, errors, exitCode, fixVars, expPc,
                   EXPORT_ERRORS, history>>

----------------------------------------------------------------------------
(* src/index.ts *)

(* tsImportFix takes checkExports' result and returns errors; main turns   *)
(* them into the exit code.                                                *)
mainExitCode(errs) == IF Len(errs) = 0 THEN 0 ELSE 1

(* A variant of tsImportFixErrors that drops the result of checkExports. *)
tsImportFixErrors_DropCheckExports(errs, checkExportsRes) == errs

tsImportFixErrors(errs, checkExportsRes) ==
    IF isErr(checkExportsRes) THEN Append(errs, checkExportsRes) ELSE errs

mainReturn ==
    /\ mainPc = "checkExports"
    /\ expResult # Pending
    /\ errors' = tsImportFixErrors(errors, expResult)
    /\ exitCode' = mainExitCode(errors')
    /\ mainPc' = "done"
    /\ UNCHANGED <<inputs, disk, failures, fixVars, expVars, history>>

(* The program is run again on the tree the last run left, once that run's *)
(* process has ended (no read or write of it is pending).                  *)
Rerun ==
    /\ mainPc = "done"
    /\ FixTasksSettled /\ ExpTasksSettled
    /\ run < MaxRuns
    /\ run' = run + 1
    /\ prevClean' = (failures = 0)
    /\ disk0' = disk
    /\ failures' = 0
    /\ mainPc' = "start"
    /\ errors' = <<>>
    /\ exitCode' = -1
    /\ pathsMap' = <<>>
    /\ fixPc' = [f \in Files |-> "idle"]
    /\ fixContent' = [f \in Files |-> <<>>]
    /\ fixOut' = [f \in Files |-> <<>>]
    /\ IMPORT_ERRORS' = <<>>
    /\ TRANSFORMED_IMPORTS' = <<>>
    /\ fixLog' = <<>>
    /\ fixResult' = Pending
    /\ expPc' = [f \in Files |-> "idle"]
    /\ EXPORT_ERRORS' = <<>>
    /\ expResult' = Pending
    /\ UNCHANGED <<inputs, disk>>

Next ==
    \/ fixImportsCall
    \/ \E f \in Files : fixReadOk(f)
    \/ \E f \in Files : fixReadFail(f)
    \/ \E f \in Files : fixWriteOk(f)
    \/ \E f \in Files : fixWriteFail(f)
    \/ fixImportsSettle
    \/ checkExportsCall
    \/ \E f \in Files : expReadOk(f)
    \/ \E f \in Files : expReadFail(f)
    \/ checkExportsSettle
    \/ mainReturn
    \/ Rerun

Spec == Init /\ [][Next]_vars

----------------------------------------------------------------------------
(* The rewrite of single specifiers over a wide range of inputs: one file  *)
(* holding one import, every alias table, tree and option set below, and   *)
(* the pass run without a failing read or write.                           *)

FileLibA == <<SRC, LIB, <<"a", "ts">>>>

SpecifierPrefixes ==
    { <<>>, <<DOT>>, <<DOTDOT>>, <<DOT, LIB>>, <<DOTDOT, VENDOR, LIB>>,
      <<TILDE>>, <<TILDE, LIB>>, <<ATLIB>> }

SpecifierBases ==
    { <<"x">>, <<"x", "js">>, <<"x", "ts">>, <<"x", "tsx">>, <<"x", "d", "ts">>,
      <<"x", "css">>, <<"gen", "js">>, E }

Specifiers ==
    {pre \o <<base>> : pre \in SpecifierPrefixes, base \in SpecifierBases} \ {EmptyStr}

(* x.<ext> in src/ and src/lib/ for the extensions of inSrc, in            *)
(* vendor/lib/ for those of inVendor.                                      *)
TreeOf(inSrc, inVendor) ==
    {Abs(<<SRC, <<"x">> \o e>>) : e \in inSrc}
    \cup {Abs(<<SRC, LIB, <<"x">> \o e>>) : e \in inSrc}
    \cup {Abs(<<VENDOR, LIB, <<"x">> \o e>>) : e \in inVendor}

Trees ==
    {TreeOf(inSrc, inVendor) :
        inSrc \in SUBSET {<<"ts">>, <<"tsx">>, <<"d", "ts">>},
        inVendor \in {{}, {<<"tsx">>}}}

InitPaths ==
    /\ tsconfig \in {TsconfigOne, TsconfigNestedPrefix, TsconfigNestedDir,
                     TsconfigNestedDirFirst}
    /\ opts \in OptionSets
    /\ filePaths \in {<<FileA>>, <<FileLibA>>}
    /\ tree \in Trees
    /\ disk \in {<<<<Import(p)>>>> : p \in Specifiers}
    /\ disk0 = disk
    /\ Fresh(filePaths)

NextPaths ==
    \/ fixImportsCall
    \/ \E f \in Files : fixReadOk(f)
    \/ \E f \in Files : fixWriteOk(f)
    \/ fixImportsSettle

SpecPaths == InitPaths /\ [][NextPaths]_vars

----------------------------------------------------------------------------
(* Vocabulary of the properties *)

(* The task of file f has run its transform: fixContent[f] is what it read *)
(* and fixOut[f] what it made of it, statement by statement.               *)
Transformed(f) == fixPc[f] \in {"writing", "done", "writeFailed"}

Matched(f) == {i \in 1..Len(fixContent[f]) : IMPORT_PATTERN(fixContent[f][i])}

Written(f, i) == fixContent[f][i].path
Produced(f, i) == fixOut[f][i].path

(* The specifier ends in a file name (not in "/", "." or ".."). *)
NamesFile(p) == Last(p) \notin {E, DOT, DOTDOT}

(* A specifier the pass handles: relative or alias, and not ignored. *)
Handled(p) == (isRelativeImport(p) \/ isAliasImport(p, pathsMap)) /\ ~isIgnored(p, opts)

ResolvedOf(f, p) == resolveImportPath(p, filePaths[f], pathsMap)

(* The absolute path r lies below directory d. *)
Below(r, d) ==
    /\ Len(Tail(r)) > Len(ResolveSegs(EmptyStr, d))
    /\ SubSeq(Tail(r), 1, Len(ResolveSegs(EmptyStr, d))) = ResolveSegs(EmptyStr, d)

UnderAliasDir(r) == \E i \in 1..Len(pathsMap) : Below(r, pathsMap[i].aliasDir)

(* The path of the stem of r with extension e: same directory, same name. *)
StemWith(r, e) == Front(r) \o <<PathParse(r).name \o e>>

InLookupSet(p) == PathParse(p).ext \in {E, <<"", "js">>, <<"", "jsx">>, <<"", "ts">>, <<"", "tsx">>}

(* The first of .ts, .tsx, .d.ts the stem of r has a file for; <<>> when   *)
(* it has none.                                                            *)
FirstOnDisk(r) ==
    IF StemWith(r, <<"ts">>) \in tree THEN <<"ts">>
    ELSE IF StemWith(r, <<"tsx">>) \in tree THEN <<"tsx">>
    ELSE IF StemWith(r, <<"d", "ts">>) \in tree THEN <<"d", "ts">>
    ELSE <<>>

(* The file on disk an absolute path r stands for under the extension      *)
(* substitution of TypeScript: the first existing stem.{ts,tsx,d.ts} when  *)
(* the extension of r is a lookup extension and one exists, else r itself. *)
FileOf(r) ==
    IF InLookupSet(r) /\ FirstOnDisk(r) # <<>> THEN StemWith(r, FirstOnDisk(r)) ELSE r

EndsIn(p, e) ==
    /\ Len(Last(p)) > Len(e)
    /\ SubSeq(Last(p), Len(Last(p)) - Len(e) + 1, Len(Last(p))) = e

----------------------------------------------------------------------------
(* C1 *)

(* C1: every relative specifier that names a file on disk and whose        *)
(* resolved path lies below a configured alias directory is, with          *)
(* skipAlias = false, rewritten to a specifier that starts with a          *)
(* configured alias and that resolves to the same file as the specifier    *)
(* written.                                                                *)
C1_AliasFormResolvesToSameFile ==
    \A f \in Files : Transformed(f) =>
        \A i \in Matched(f) :
            ( /\ isRelativeImport(Written(f, i))
              /\ NamesFile(Written(f, i))
              /\ FileOf(ResolvedOf(f, Written(f, i))) \in tree
              /\ ~isIgnored(Written(f, i), opts)
              /\ ~opts.skipAlias
              /\ UnderAliasDir(ResolvedOf(f, Written(f, i))) )
            => /\ isAliasImport(Produced(f, i), pathsMap)
               /\ FileOf(ResolvedOf(f, Produced(f, i))) = FileOf(ResolvedOf(f, Written(f, i)))

(* The same with no alias prefix nested in another one. *)
NoNestedPrefix ==
    \A i, j \in 1..Len(pathsMap) : i # j => ~StartsWith(pathsMap[i].alias, pathsMap[j].alias)

C1_HoldsWithoutNestedPrefix == NoNestedPrefix => C1_AliasFormResolvesToSameFile

----------------------------------------------------------------------------
(* C3 *)

(* C3 as stated: a specifier whose written extension is not a lookup       *)
(* extension is left exactly as written.                                   *)
C3_NonLookupNeverModified ==
    \A f \in Files : Transformed(f) =>
        \A i \in Matched(f) :
            ~InLookupSet(Written(f, i)) => Produced(f, i) = Written(f, i)

(* C3: a specifier whose written extension is not a lookup extension keeps *)
(* its file name, extension included; it is left exactly as written unless *)
(* it is relative, not ignored, skipAlias is false and an alias directory  *)
(* covers its resolved path, and then only its directory part is replaced  *)
(* by the alias form.                                                      *)
C3_NonLookupKeepsName ==
    \A f \in Files : Transformed(f) =>
        \A i \in Matched(f) :
            ~InLookupSet(Written(f, i)) =>
                /\ Last(Produced(f, i)) = Last(Written(f, i))
                /\ IF /\ isRelativeImport(Written(f, i))
                      /\ ~isIgnored(Written(f, i), opts)
                      /\ ~opts.skipAlias
                      /\ UnderAliasDir(ResolvedOf(f, Written(f, i)))
                   THEN isAliasImport(Produced(f, i), pathsMap)
                   ELSE Produced(f, i) = Written(f, i)

C3_Witness ==
    \E f \in Files :
        /\ Transformed(f)
        /\ \E i \in Matched(f) :
              /\ ~InLookupSet(Written(f, i))
              /\ ~opts.skipAlias
              /\ Produced(f, i) # Written(f, i)
              /\ StemWith(ResolvedOf(f, Written(f, i)), <<"ts">>) \in tree

----------------------------------------------------------------------------
(* C7 *)

(* C7 as stated: whatever extension is written, a handled specifier whose  *)
(* resolved stem has a .ts file ends in .ts, and in general carries the    *)
(* first of .ts, .tsx, .d.ts that exists for the stem.                     *)
C7_FirstExistingExtensionAnyWritten ==
    \A f \in Files : Transformed(f) =>
        \A i \in Matched(f) :
            (Handled(Written(f, i)) /\ FirstOnDisk(ResolvedOf(f, Written(f, i))) # <<>>)
            => EndsIn(Produced(f, i), FirstOnDisk(ResolvedOf(f, Written(f, i))))

(* C7: a handled specifier that ends in a file name and whose written     *)
(* extension is a lookup extension ("", .js, .jsx, .ts, .tsx) is given the *)
(* first of .ts, .tsx, .d.ts for which stem + extension exists: .ts        *)
(* whenever stem.ts exists, and the file name produced is the name of the  *)
(* stem with that extension.                                               *)
C7_FirstExistingExtension ==
    \A f \in Files : Transformed(f) =>
        \A i \in Matched(f) :
            ( /\ Handled(Written(f, i))
              /\ NamesFile(Written(f, i))
              /\ InLookupSet(Written(f, i))
              /\ FirstOnDisk(ResolvedOf(f, Written(f, i))) # <<>> )
            => /\ Last(Produced(f, i)) =
                    PathParse(ResolvedOf(f, Written(f, i))).name
                    \o FirstOnDisk(ResolvedOf(f, Written(f, i)))
               /\ (StemWith(ResolvedOf(f, Written(f, i)), <<"ts">>) \in tree
                   => EndsIn(Produced(f, i), <<"ts">>))

C7_Witness ==
    \E f \in Files :
        /\ Transformed(f)
        /\ \E i \in Matched(f) :
              /\ Handled(Written(f, i))
              /\ PathParse(Written(f, i)).ext = <<"", "js">>
              /\ StemWith(ResolvedOf(f, Written(f, i)), <<"ts">>) \in tree
              /\ StemWith(ResolvedOf(f, Written(f, i)), <<"tsx">>) \in tree
              /\ EndsIn(Produced(f, i), <<"ts">>)

----------------------------------------------------------------------------
(* Vocabulary of the properties of a whole run *)

(* What the transform of file f makes of the text the run found on disk. *)
ExpectedOf(f) == TransformContent(disk0[f], filePaths[f], pathsMap, opts, tree)

Entry(f, lines) == [filePath |-> filePaths[f], lines |-> lines]

Holds(list, entry) == \E k \in 1..Len(list) : list[k] = entry

FixReturned == fixResult # Pending /\ tsconfig.found

ReadByFix(f) == fixPc[f] # "readFailed"

----------------------------------------------------------------------------
(* C2 *)

(* C2: in write mode, when a run has ended without a failed read or write, *)
(* the next run rewrites no specifier, records no change description and   *)
(* writes no file.                                                         *)
C2_SecondRunChangesNothing ==
    (run >= 2 /\ prevClean /\ opts.write) =>
        /\ TRANSFORMED_IMPORTS = <<>>
        /\ \A f \in Files :
              /\ fixPc[f] # "writing"
              /\ Transformed(f) => fixOut[f] = fixContent[f]
        /\ disk = disk0

C2_HoldsWithoutNestedPrefix == NoNestedPrefix => C2_SecondRunChangesNothing

----------------------------------------------------------------------------
(* C4 *)

(* C4: with write = false the disk stays as the run found it, and once     *)
(* fixImports has returned every change of every file it could read is in  *)
(* the "transformed imports" log it printed.                               *)
C4_DryRunReportsEveryChange ==
    ~opts.write =>
        /\ disk = disk0
        /\ FixReturned =>
              \A f \in Files :
                  (ReadByFix(f) /\ ExpectedOf(f).transformed # <<>>)
                  => Holds(fixLog, Entry(f, ExpectedOf(f).transformed))

(* Its two halves: the disk half holds in every run, the log half in the   *)
(* runs in which no read fails.                                            *)
C4_DryRunLeavesDiskUnchanged == ~opts.write => disk = disk0

C4_HoldsWithoutFailure == failures = 0 => C4_DryRunReportsEveryChange

----------------------------------------------------------------------------
(* C5 *)

(* C5: main returns 0 exactly when fixImports and checkExports both        *)
(* returned no error and 1 otherwise, and by then both have returned.      *)
C5_ExitCodeReflectsBothPasses ==
    mainPc = "done" =>
        /\ fixResult # Pending
        /\ expResult # Pending
        /\ exitCode \in {0, 1}
        /\ exitCode = 0 <=> (~isErr(fixResult) /\ ~isErr(expResult))

C5_Witness ==
    /\ mainPc = "done"
    /\ exitCode = 1
    /\ ~isErr(fixResult)
    /\ isErr(expResult)

----------------------------------------------------------------------------
(* C6 *)

(* Named index.*: the base name is "index" followed by an extension. *)
NamedIndexStar(filePath) == Len(Last(filePath)) >= 2 /\ Last(filePath)[1] = "index"

(* The name without its last extension is exactly "index". *)
NameIsIndex(filePath) == Len(Last(filePath)) = 2 /\ Last(filePath)[1] = "index"

HasExportDeclaration(text) ==
    \E i \in 1..Len(text) : text[i].kind \in {"exportFrom", "exportList"}

(* C6 as stated: checkExports returns an error exactly when some file not  *)
(* named index.* holds an export declaration, and no file named index.* is *)
(* ever reported.                                                          *)
C6_ErrorIffNonIndexExport ==
    /\ expResult # Pending =>
          (isErr(expResult) <=>
              \E f \in Files : ~NamedIndexStar(filePaths[f]) /\ HasExportDeclaration(disk[f]))
    /\ \A k \in 1..Len(EXPORT_ERRORS) : ~NamedIndexStar(EXPORT_ERRORS[k].filePath)

(* A step of checkExports or of one of its tasks. *)
ExpStep == expPc' # expPc \/ expResult' # expResult \/ EXPORT_ERRORS' # EXPORT_ERRORS

ExpReportsReadFailureOrExport ==
    /\ expResult # Pending =>
          (isErr(expResult) <=>
              \E f \in Files :
                  /\ ~NameIsIndex(filePaths[f])
                  /\ expPc[f] = "failed" \/ HasExportDeclaration(disk[f]))
    /\ \A k \in 1..Len(EXPORT_ERRORS) : ~NameIsIndex(EXPORT_ERRORS[k].filePath)
    /\ \A f \in Files : NameIsIndex(filePaths[f]) => expPc[f] \in {"idle", "done"}

(* C6: checkExports returns an error exactly when, among the files whose   *)
(* name without its last extension is not "index", the read of one failed  *)
(* or one holds an export declaration, with or without a from clause; a    *)
(* file whose name without its last extension is "index" is neither read   *)
(* nor reported; and no step of checkExports changes a file on disk.       *)
C6_ErrorIffReadFailedOrExport ==
    /\ []ExpReportsReadFailureOrExport
    /\ [][ExpStep => disk' = disk]_vars

C6_Witness ==
    /\ expResult.message = "found export declarations"
    /\ \E f \in Files : NameIsIndex(filePaths[f]) /\ HasExportDeclaration(disk[f])
    /\ \E f \in Files : NamedIndexStar(filePaths[f]) /\ ~NameIsIndex(filePaths[f])
                        /\ Holds(EXPORT_ERRORS, Entry(f, exportDeclarations(disk[f])))

----------------------------------------------------------------------------
(* C8 *)

(* C8: when fixImports returns, the diagnostics of every file whose own    *)
(* read and write did not fail are part of the result returned and its     *)
(* change descriptions part of the log printed.                            *)
C8_OtherFilesCompleteAndReported ==
    FixReturned =>
        \A f \in Files :
            fixPc[f] \notin {"readFailed", "writeFailed"} =>
                /\ ExpectedOf(f).errors # <<>>
                   => Holds(fixResult.detail, Entry(f, ExpectedOf(f).errors))
                /\ ExpectedOf(f).transformed # <<>>
                   => Holds(fixLog, Entry(f, ExpectedOf(f).transformed))

C8_HoldsWithoutFailure == failures = 0 => C8_OtherFilesCompleteAndReported

----------------------------------------------------------------------------
(* C9 *)

(* The extension of handled specifier p of file f cannot be resolved: it   *)
(* is a lookup extension and the stem has none of .ts, .tsx, .d.ts.        *)
ExtensionFails(f, p) ==
    /\ Handled(p)
    /\ InLookupSet(p)
    /\ FirstOnDisk(ResolvedOf(f, p)) = <<>>

ErrorsOf(f) == {k \in 1..Len(IMPORT_ERRORS) : IMPORT_ERRORS[k].filePath = filePaths[f]}

Occurrences(lines, e) == Cardinality({n \in 1..Len(lines) : lines[n] = e})

(* C9: a specifier whose extension cannot be resolved gets one error in    *)
(* the error entry of its file and keeps its base name as written; its     *)
(* alias step still runs, the specifiers after it are still given their    *)
(* extension, and fixImports returns an error, so that main returns 1.     *)
C9_ExtensionFailureIsRecordedAndSkipped ==
    \A f \in Files : Transformed(f) =>
        \A i \in Matched(f) :
            ExtensionFails(f, Written(f, i)) =>
                /\ Cardinality(ErrorsOf(f)) = 1
                /\ \A k \in ErrorsOf(f) :
                      Occurrences(IMPORT_ERRORS[k].lines, ExtensionError(Written(f, i)))
                      = Cardinality({j \in Matched(f) : Written(f, j) = Written(f, i)})
                /\ PathParse(Produced(f, i)).base = PathParse(Written(f, i)).base
                /\ ( /\ isRelativeImport(Written(f, i))
                     /\ ~opts.skipAlias
                     /\ UnderAliasDir(ResolvedOf(f, Written(f, i))) )
                   => isAliasImport(Produced(f, i), pathsMap)
                /\ Len(fixOut[f]) = Len(fixContent[f])
                /\ \A j \in Matched(f) :
                      ( /\ j > i
                        /\ Handled(Written(f, j))
                        /\ InLookupSet(Written(f, j))
                        /\ FirstOnDisk(ResolvedOf(f, Written(f, j))) # <<>> )
                      => EndsIn(Produced(f, j), FirstOnDisk(ResolvedOf(f, Written(f, j))))
                /\ fixResult # Pending => isErr(fixResult)
                /\ mainPc = "done" => exitCode = 1

C9_Witness ==
    /\ mainPc = "done"
    /\ fixResult.message = "failed to transform some imports"
    /\ \E f \in Files :
          /\ fixPc[f] = "done"
          /\ \E i, j \in Matched(f) :
                /\ i < j
                /\ ExtensionFails(f, Written(f, i))
                /\ isRelativeImport(Written(f, i))
                /\ isAliasImport(Produced(f, i), pathsMap)
                /\ Produced(f, j) # Written(f, j)
                /\ EndsIn(Produced(f, j), <<"ts">>)

----------------------------------------------------------------------------
(* C10 *)

(* C10: once fixImports has returned no task of it is reading or writing,  *)
(* so checkExports reads no file while a task of fixImports is pending.    *)
C10_ScanAfterRewritePass ==
    /\ fixResult # Pending => FixTasksSettled
    /\ (\E f \in Files : expPc[f] = "reading") => FixTasksSettled

C10_HoldsWithoutFailure == failures = 0 => C10_ScanAfterRewritePass

====
